---- MODULE Spec2Model ----
(***************************************************************************)
(* Model of the spending-analytics engine (analytics.py): the four report  *)
(* functions calculate_spending_analytics, calculate_card_analytics,       *)
(* detect_unusual_transactions and generate_spending_insights, applied to  *)
(* an in-memory list of Transaction rows and a CreditCard row.             *)
(*                                                                         *)
(* Amounts are integers (cents); every sum, mean and comparison is exact.  *)
(* A quotient the code computes in floating point is kept as the pair      *)
(* [num, den].  Python's None / pandas' NaN key is the value None.         *)
(* A pandas dict result is a TLA+ function whose DOMAIN is the key set.    *)
(***************************************************************************)
EXTENDS Integers, Sequences, FiniteSets, TLC

VARIABLES transactions, card, op, result, db, current_user

vars == <<transactions, card, op, result, db, current_user>>

(***************************************************************************)
(* Generic helpers.                                                        *)
(***************************************************************************)
None == "None"

Range(s) == {s[i] : i \in DOMAIN s}

Abs(x) == IF x < 0 THEN -x ELSE x

Min2(a, b) == IF a <= b THEN a ELSE b

RECURSIVE SeqSum(_)
SeqSum(s) == IF s = <<>> THEN 0 ELSE s[1] + SeqSum(Tail(s))

RECURSIVE SetSum(_, _)
SetSum(f, S) ==
    IF S = {} THEN 0
    ELSE LET x == CHOOSE y \in S : TRUE IN f[x] + SetSum(f, S \ {x})

\* sum(d.values()) of a dict
DictSum(d) == SetSum(d, DOMAIN d)

\* the rows of a list that satisfy a test, in list order
RECURSIVE SelectIdx(_, _, _)
SelectIdx(s, keep, i) ==
    IF i > Len(s) THEN <<>>
    ELSE (IF i \in keep THEN <<s[i]>> ELSE <<>>) \o SelectIdx(s, keep, i + 1)

\* All sequences over S of length 0..n
RECURSIVE SeqsUpTo(_, _)
SeqsUpTo(S, n) ==
    IF n = 0 THEN {<<>>}
    ELSE LET shorter == SeqsUpTo(S, n - 1)
         IN shorter \cup {Append(s, x) : s \in {t \in shorter : Len(t) = n - 1}, x \in S}

\* Python's str ordering on the names the model uses (lexicographic).
SortedNames == <<"acme", "auto", "bistro", "dining", "food", "gas", "health", "travel">>

NameRank(n) == CHOOSE i \in DOMAIN SortedNames : SortedNames[i] = n

NameLess(a, b) == NameRank(a) < NameRank(b)

(***************************************************************************)
(* datetime: transaction_date is a timestamp [year, month, day, hour].     *)
(***************************************************************************)
IsLeap(y) == (y % 4 = 0 /\ y % 100 # 0) \/ y % 400 = 0

DaysInMonth(y, m) ==
    IF m = 2 THEN (IF IsLeap(y) THEN 29 ELSE 28)
    ELSE IF m \in {4, 6, 9, 11} THEN 30 ELSE 31

DateTime(y, m, d, h) == [year |-> y, month |-> m, day |-> d, hour |-> h]

\* a total order on timestamps: the key sorted() and min/max compare
Stamp(dt) == ((dt.year * 12 + (dt.month - 1)) * 31 + (dt.day - 1)) * 24 + dt.hour

\* datetime.date(): the time of day is discarded
DateOf(dt) == [year |-> dt.year, month |-> dt.month, day |-> dt.day]

\* index of the calendar month that holds dt
MonthIndex(dt) == dt.year * 12 + (dt.month - 1)

\* mutant of MonthEndOfIndex: the bin labelled by the month's first day (freq 'MS')
MonthStartOfIndex(k) == DateTime(k \div 12, (k % 12) + 1, 1, 0)

\* label of a 'M' (month-end) bin: the month's last calendar day, at midnight
MonthEndOfIndex(k) ==
    LET y == k \div 12
        m == (k % 12) + 1
    IN DateTime(y, m, DaysInMonth(y, m), 0)

MonthEnd(dt) == MonthEndOfIndex(MonthIndex(dt))

\* proleptic Gregorian day number (days since 1970-01-01)
DayNumber(dt) ==
    LET y   == IF dt.month <= 2 THEN dt.year - 1 ELSE dt.year
        era == y \div 400
        yoe == y - era * 400
        mp  == IF dt.month > 2 THEN dt.month - 3 ELSE dt.month + 9
        doy == (153 * mp + 2) \div 5 + dt.day - 1
        doe == yoe * 365 + yoe \div 4 - yoe \div 100 + doy
    IN era * 146097 + doe - 719468

\* Monday = 0 .. Sunday = 6
Weekday(dt) == (DayNumber(dt) + 3) % 7

\* the date (at midnight) with day number z
FromDayNumber(z) ==
    LET z1  == z + 719468
        era == z1 \div 146097
        doe == z1 - era * 146097
        yoe == (doe - doe \div 1460 + doe \div 36524 - doe \div 146096) \div 365
        doy == doe - (365 * yoe + yoe \div 4 - yoe \div 100)
        mp  == (5 * doy + 2) \div 153
        d   == doy - (153 * mp + 2) \div 5 + 1
        m   == IF mp < 10 THEN mp + 3 ELSE mp - 9
        y   == yoe + era * 400 + (IF m <= 2 THEN 1 ELSE 0)
    IN DateTime(y, m, d, 0)

\* label of a 'W' (W-SUN) bin: the Sunday that closes the week of dt, at midnight
WeekEnd(dt) == FromDayNumber(DayNumber(dt) + 6 - Weekday(dt))

(***************************************************************************)
(* Rows.  A Transaction carries its primary key id, which the model sets   *)
(* to the row's position in the list, so that two rows with equal fields   *)
(* stay two rows.                                                          *)
(***************************************************************************)
Txn(a, c, m, d) == [amount |-> a, category |-> c, merchant |-> m, transaction_date |-> d]

WithIds(s) == [i \in DOMAIN s |->
                 [id |-> i, amount |-> s[i].amount, category |-> s[i].category,
                  merchant |-> s[i].merchant, transaction_date |-> s[i].transaction_date]]

Card(limit, balance) ==
    [credit_limit |-> limit, current_balance |-> balance, available_credit |-> limit - balance]

Amounts(txs) == [i \in DOMAIN txs |-> txs[i].amount]

\* a result that did not raise / that raised
Ok(v) == [error |-> "none", value |-> v]

Raised(e) == [error |-> e, value |-> <<>>]

NoResult == [error |-> "none", value |-> <<>>]

(***************************************************************************)
(* pandas primitives.                                                      *)
(***************************************************************************)
EmptyDict == [k \in {} |-> 0]

Ratio(n, d) == [num |-> n, den |-> d]

\* positions of the rows whose column `key` holds k
RowsWith(rows, key, k) == {i \in DOMAIN rows : rows[i][key] = k}

SumAt(rows, I) == SeqSum(Amounts(SelectIdx(rows, I, 1)))

\* the group keys of df.groupby(key): dropna=True leaves the None/NaN key out
GroupKeys(rows, key) == {rows[i][key] : i \in DOMAIN rows} \ {None}

\* df.groupby(key)['amount'].sum().to_dict()
GroupBySum(rows, key) ==
    [k \in GroupKeys(rows, key) |-> SumAt(rows, RowsWith(rows, key, k))]

\* df.groupby(key)['amount'].count()
GroupByCount(rows, key) ==
    [k \in GroupKeys(rows, key) |-> Cardinality(RowsWith(rows, key, k))]

\* a set of names as the sequence in ascending str order (a groupby's key order)
RECURSIVE SortNames(_)
SortNames(S) ==
    IF S = {} THEN <<>>
    ELSE LET first == CHOOSE x \in S : \A y \in S \ {x} : NameLess(x, y)
         IN <<first>> \o SortNames(S \ {first})

\* Series.mode(): the most frequent non-null values, in ascending order
Mode(rows, key) ==
    LET counts == GroupByCount(rows, key)
        top    == {k \in DOMAIN counts : \A j \in DOMAIN counts : counts[j] <= counts[k]}
    IN SortNames(top)

SeqMax(s) == CHOOSE x \in Range(s) : \A y \in Range(s) : y <= x

(***************************************************************************)
(* calculate_spending_analytics                                            *)
(***************************************************************************)
EmptySpendingAnalytics ==
    [total_spent |-> 0, spending_by_category |-> EmptyDict,
     spending_by_merchant |-> EmptyDict, daily_spending |-> EmptyDict,
     average_transaction |-> Ratio(0, 1), largest_transaction |-> 0,
     most_frequent_merchant |-> ""]

\* df.groupby('date')['amount'].sum().to_dict(), date = transaction_date.date()
DailySpending(txs) ==
    LET days == {DateOf(txs[i].transaction_date) : i \in DOMAIN txs}
    IN [d \in days |->
          SumAt(txs, {i \in DOMAIN txs : DateOf(txs[i].transaction_date) = d})]

calculate_spending_analytics(txs) ==
    IF txs = <<>> THEN Ok(EmptySpendingAnalytics)
    ELSE LET total_spent == SeqSum(Amounts(txs))
             mode        == Mode(txs, "merchant")
         IN IF mode = <<>> THEN Raised("IndexError")   \* mode().iloc[0] of an empty Series
            ELSE Ok([total_spent |-> total_spent,
                     spending_by_category |-> GroupBySum(txs, "category"),
                     spending_by_merchant |-> GroupBySum(txs, "merchant"),
                     daily_spending |-> DailySpending(txs),
                     average_transaction |-> Ratio(total_spent, Len(txs)),
                     largest_transaction |-> SeqMax(Amounts(txs)),
                     most_frequent_merchant |-> mode[1]])

(***************************************************************************)
(* calculate_card_analytics                                                *)
(***************************************************************************)
RecentLimit == 10

\* mutant of UtilizationRate: the guard written credit_limit >= 0, so that a zero
\* limit reaches the division
UtilizationRateNonNegativeGuard(c) ==
    IF c.credit_limit > 0 THEN Ok(Ratio(c.current_balance * 100, c.credit_limit))
    ELSE IF c.credit_limit = 0 THEN Raised("ZeroDivisionError")
    ELSE Ok(Ratio(0, 1))

\* (card.current_balance / card.credit_limit) * 100 if card.credit_limit > 0 else 0
UtilizationRate(c) ==
    IF c.credit_limit > 0 THEN Ok(Ratio(c.current_balance * 100, c.credit_limit))
    ELSE Ok(Ratio(0, 1))

\* list.insert that keeps `sorted` in non-increasing transaction_date order and
\* puts t behind the rows of equal date (sorted() is stable, also with reverse=True)
RECURSIVE InsertDesc(_, _)
InsertDesc(sorted, t) ==
    IF sorted = <<>> THEN <<t>>
    ELSE IF Stamp(sorted[1].transaction_date) >= Stamp(t.transaction_date)
         THEN <<sorted[1]>> \o InsertDesc(Tail(sorted), t)
         ELSE <<t>> \o sorted

\* sorted(transactions, key=lambda x: x.transaction_date, reverse=True)
RECURSIVE SortedByDateDesc(_)
SortedByDateDesc(txs) ==
    IF txs = <<>> THEN <<>>
    ELSE InsertDesc(SortedByDateDesc(SubSeq(txs, 1, Len(txs) - 1)), txs[Len(txs)])

\* s[:n]
FirstN(s, n) == SubSeq(s, 1, Min2(n, Len(s)))

\* s reversed
Reversed(s) == [i \in DOMAIN s |-> s[Len(s) + 1 - i]]

\* mutant of RecentTransactions: reverse=True left out, the sort ascending
RecentTransactionsAscending(txs) == FirstN(Reversed(SortedByDateDesc(txs)), RecentLimit)

RecentTransactions(txs) == FirstN(SortedByDateDesc(txs), RecentLimit)

\* mutant of MonthBins: only the months that hold a row (a groupby on the
\* month instead of resample), so a gap month has no bin
MonthBinsObserved(txs) == {MonthEnd(txs[i].transaction_date) : i \in DOMAIN txs}

\* the month-end labels resample('M') produces: every month from the earliest
\* row's to the latest row's, the months without rows included
MonthBins(txs) ==
    LET idx == {MonthIndex(txs[i].transaction_date) : i \in DOMAIN txs}
        lo  == CHOOSE k \in idx : \A j \in idx : k <= j
        hi  == CHOOSE k \in idx : \A j \in idx : j <= k
    IN {MonthEndOfIndex(k) : k \in lo..hi}

\* df.set_index('date').resample('M')['amount'].sum().to_dict()
MonthlySpending(txs) ==
    [b \in MonthBins(txs) |->
        SumAt(txs, {i \in DOMAIN txs : MonthEnd(txs[i].transaction_date) = b})]

\* df.groupby(['category', pd.Grouper(key='date', freq='M')])['amount'].sum():
\* a Series indexed by the observed (category, month end) pairs, None dropped
CategoryTrends(txs) ==
    LET pairs == {<<txs[i].category, MonthEnd(txs[i].transaction_date)>> :
                     i \in {j \in DOMAIN txs : txs[j].category # None}}
    IN [p \in pairs |->
          SumAt(txs, {i \in DOMAIN txs :
                         /\ txs[i].category = p[1]
                         /\ MonthEnd(txs[i].transaction_date) = p[2]})]

\* {cat: amounts.to_dict() for cat, amounts in category_trends.groupby(level=0)}:
\* each group keeps the two-level index, so its keys are (category, month end)
ByCategory(txs) ==
    LET trends == CategoryTrends(txs)
        cats   == {p[1] : p \in DOMAIN trends}
    IN [cat \in cats |->
          [p \in {q \in DOMAIN trends : q[1] = cat} |-> trends[p]]]

\* mutant of SpendingTrends: the two mappings set up empty before the guard
SpendingTrendsPreset(txs) ==
    IF txs = <<>> THEN [monthly |-> EmptyDict, by_category |-> EmptyDict]
    ELSE [monthly |-> MonthlySpending(txs), by_category |-> ByCategory(txs)]

SpendingTrends(txs) ==
    IF txs = <<>> THEN EmptyDict
    ELSE [monthly |-> MonthlySpending(txs), by_category |-> ByCategory(txs)]

calculate_card_analytics(c, txs) ==
    LET utilization_rate == UtilizationRate(c)
    IN IF utilization_rate.error # "none" THEN Raised(utilization_rate.error)
       ELSE Ok([utilization_rate |-> utilization_rate.value,
                available_credit |-> c.available_credit,
                total_balance |-> c.current_balance,
                payment_due_date |-> None,
                minimum_payment |-> None,
                recent_transactions |-> RecentTransactions(txs),
                spending_trends |-> SpendingTrends(txs)])

(***************************************************************************)
(* detect_unusual_transactions                                             *)
(***************************************************************************)
SumSquares(s) == SeqSum([i \in DOMAIN s |-> s[i] * s[i]])

\* Series.std() (ddof = 1) is NaN when there are fewer than 2 values
StdIsNaN(amounts) == Len(amounts) < 2

\* mutant of ExceedsTwoStd: the test written as not (abs(a - mean) <= 2 * std),
\* which is True against a NaN std
ExceedsTwoStdNegated(a, amounts) ==
    LET n == Len(amounts)
        S == SeqSum(amounts)
        Q == SumSquares(amounts)
    IN IF StdIsNaN(amounts) THEN TRUE
       ELSE ~((n * a - S) * (n * a - S) * (n - 1) <= 4 * n * (n * Q - S * S))

\* abs(a - mean) > 2 * std, with mean = S/n and std^2 = (n*Q - S^2) / (n*(n-1)):
\* both sides are non-negative, so the squares compare alike, and
\* (n*a - S)^2 / n^2 > 4 * (n*Q - S^2) / (n*(n-1)) is the line below.
\* A comparison with NaN is False.
ExceedsTwoStd(a, amounts) ==
    LET n == Len(amounts)
        S == SeqSum(amounts)
        Q == SumSquares(amounts)
    IN IF StdIsNaN(amounts) THEN FALSE
       ELSE (n * a - S) * (n * a - S) * (n - 1) > 4 * n * (n * Q - S * S)

\* df[abs(df['amount'] - mean) > 2 * std]: the (amount, date) columns of the kept rows
UnusualAmounts(txs) ==
    LET kept == {i \in DOMAIN txs : ExceedsTwoStd(txs[i].amount, Amounts(txs))}
    IN [i \in DOMAIN SelectIdx(txs, kept, 1) |->
          [amount |-> SelectIdx(txs, kept, 1)[i].amount,
           date   |-> SelectIdx(txs, kept, 1)[i].transaction_date]]

\* mutant of MatchUnusual: a join of the kept rows with the list, which yields a
\* row once per kept row it matches
RECURSIVE JoinFrom(_, _, _)
JoinFrom(txs, unusual, j) ==
    IF j > Len(unusual) THEN <<>>
    ELSE SelectIdx(txs,
                   {i \in DOMAIN txs :
                      /\ txs[i].amount = unusual[j].amount
                      /\ txs[i].transaction_date = unusual[j].date},
                   1) \o JoinFrom(txs, unusual, j + 1)

MatchUnusualJoin(txs, unusual) == JoinFrom(txs, unusual, 1)

\* [t for t in transactions if any(t.amount == amount and t.transaction_date == date ...)]
MatchUnusual(txs, unusual) ==
    SelectIdx(txs,
              {i \in DOMAIN txs :
                 \E j \in DOMAIN unusual :
                    /\ txs[i].amount = unusual[j].amount
                    /\ txs[i].transaction_date = unusual[j].date},
              1)

detect_unusual_transactions(txs) ==
    IF txs = <<>> THEN Ok(<<>>)
    ELSE Ok(MatchUnusual(txs, UnusualAmounts(txs)))

(***************************************************************************)
(* generate_spending_insights                                              *)
(***************************************************************************)
TopLimit == 5

HighSharePercent == 30

FrequentCount == 5

\* mutant of SortValuesDesc: ascending=False left out
RECURSIVE SortValuesAsc(_, _)
SortValuesAsc(series, keys) ==
    IF keys = {} THEN {<<>>}
    ELSE LET smallest == {k \in keys : \A j \in keys : series[k] <= series[j]}
         IN UNION {{<<k>> \o rest : rest \in SortValuesAsc(series, keys \ {k})} :
                      k \in smallest}

\* Series.sort_values(ascending=False) with the default kind ('quicksort', which
\* is not a stable sort): every arrangement of the keys with non-increasing
\* values is a possible result; the order among equal values is the library's.
RECURSIVE SortValuesDesc(_, _)
SortValuesDesc(series, keys) ==
    IF keys = {} THEN {<<>>}
    ELSE LET largest == {k \in keys : \A j \in keys : series[j] <= series[k]}
         IN UNION {{<<k>> \o rest : rest \in SortValuesDesc(series, keys \ {k})} :
                      k \in largest}

\* the week-end (Sunday) labels resample('W') produces: every week from the
\* earliest row's to the latest row's, the weeks without rows included
WeekBins(txs) ==
    LET ends == {WeekEnd(txs[i].transaction_date) : i \in DOMAIN txs}
        lo   == CHOOSE e \in ends : \A f \in ends : DayNumber(e) <= DayNumber(f)
        hi   == CHOOSE e \in ends : \A f \in ends : DayNumber(f) <= DayNumber(e)
    IN {FromDayNumber(DayNumber(lo) + 7 * w) : w \in 0..((DayNumber(hi) - DayNumber(lo)) \div 7)}

\* df.set_index('date').resample('W')['amount'].sum().to_dict()
WeeklyPatterns(txs) ==
    [b \in WeekBins(txs) |->
        SumAt(txs, {i \in DOMAIN txs : WeekEnd(txs[i].transaction_date) = b})]

\* n/d rounded to the nearest integer, halves to even (n >= 0, d > 0)
RoundHalfEven(n, d) ==
    LET q == n \div d
        r == n % d
    IN IF 2 * r > d THEN q + 1
       ELSE IF 2 * r < d THEN q
       ELSE q + (q % 2)

\* f"{sum / total * 100:.1f}": the share in tenths of a percent; a zero total
\* gives inf, -inf or nan
FormatPercent(sum, total) ==
    IF total = 0
    THEN [kind |-> IF sum > 0 THEN "inf" ELSE IF sum < 0 THEN "-inf" ELSE "nan", digits |-> 0]
    ELSE LET neg == (sum < 0) # (total < 0)
             mag == RoundHalfEven(1000 * Abs(sum), Abs(total))
         IN [kind |-> "finite", digits |-> IF neg THEN -mag ELSE mag]

\* mutant of ShareExceeds: >= 30 in place of > 30
ShareAtLeast(sum, total) ==
    IF total > 0 THEN 100 * sum >= HighSharePercent * total
    ELSE IF total < 0 THEN 100 * sum <= HighSharePercent * total
    ELSE sum > 0

\* category_percentages > 30, category_percentages = sum / total * 100 in floating
\* point: dividing by a negative total turns the inequality round, and a zero
\* total gives +inf (> 30), -inf or nan (not > 30)
ShareExceeds(sum, total) ==
    IF total > 0 THEN 100 * sum > HighSharePercent * total
    ELSE IF total < 0 THEN 100 * sum < HighSharePercent * total
    ELSE sum > 0

\* the rule-1 recommendations, in the groupby's (ascending name) key order
CategoryRecommendations(txs) ==
    LET sums  == GroupBySum(txs, "category")
        total == SeqSum(Amounts(txs))
        high  == SortNames({c \in DOMAIN sums : ShareExceeds(sums[c], total)})
    IN [i \in DOMAIN high |->
          [rule |-> "reduce_category", name |-> high[i],
           shown |-> FormatPercent(sums[high[i]], total)]]

\* the rule-2 recommendations: merchants with count > 5
MerchantRecommendations(txs) ==
    LET sums     == GroupBySum(txs, "merchant")
        counts   == GroupByCount(txs, "merchant")
        frequent == SortNames({m \in DOMAIN counts : counts[m] > FrequentCount})
    IN [i \in DOMAIN frequent |->
          [rule |-> "frequent_merchant", name |-> frequent[i],
           shown |-> [kind |-> "finite", digits |-> 100 * sums[frequent[i]]]]]

\* `sorted` is the outcome of groupby('category')['amount'].sum().sort_values(ascending=False)
generate_spending_insights(txs, sorted) ==
    IF txs = <<>>
    THEN Ok([top_categories |-> <<>>, spending_patterns |-> EmptyDict, recommendations |-> <<>>])
    ELSE LET sums == GroupBySum(txs, "category")
             top  == FirstN(sorted, TopLimit)
         IN Ok([top_categories |->
                   [i \in DOMAIN top |-> [category |-> top[i], amount |-> sums[top[i]]]],
                spending_patterns |-> WeeklyPatterns(txs),
                recommendations |->
                   CategoryRecommendations(txs) \o MerchantRecommendations(txs)])

(***************************************************************************)
(* The operations: each applies one report function to the transaction     *)
(* list (and card) the caller holds, once.                                 *)
(***************************************************************************)
SpendingAnalytics ==
    /\ op = "idle"
    /\ op' = "spending"
    /\ result' = calculate_spending_analytics(transactions)
    /\ UNCHANGED <<transactions, card, db, current_user>>

CardAnalytics ==
    /\ op = "idle"
    /\ op' = "card"
    /\ result' = calculate_card_analytics(card, transactions)
    /\ UNCHANGED <<transactions, card, db, current_user>>

DetectUnusual ==
    /\ op = "idle"
    /\ op' = "unusual"
    /\ result' = detect_unusual_transactions(transactions)
    /\ UNCHANGED <<transactions, card, db, current_user>>

SpendingInsights ==
    /\ op = "idle"
    /\ op' = "insights"
    /\ \E sorted \in SortValuesDesc(GroupBySum(transactions, "category"),
                                    GroupKeys(transactions, "category")) :
          result' = generate_spending_insights(transactions, sorted)
    /\ UNCHANGED <<transactions, card, db, current_user>>

(***************************************************************************)
(* Inputs.                                                                 *)
(***************************************************************************)
MaxLen == 2

MaxSpendingLen == 3

MaxCardLen == 3

MaxInsightLen == 2

MaxFree == 2

MaxPad == 10

NewYear  == DateTime(2024, 1, 1, 0)
MidJan   == DateTime(2024, 1, 15, 10)
EndJan   == DateTime(2024, 1, 31, 15)
LeapDay  == DateTime(2024, 2, 29, 0)
MidApril == DateTime(2024, 4, 10, 9)

Cards == {Card(limit, balance) : limit \in {-100, 0, 400}, balance \in {-50, 0, 500}}

OneCard == {Card(400, 300)}

AllTxns ==
    {Txn(a, c, m, d) : a \in {3, 7}, c \in {None, "food"}, m \in {None, "acme"},
                       d \in {MidJan, LeapDay}}

SpendingTxns ==
    {Txn(a, c, m, MidJan) : a \in {3, 7}, c \in {None, "food", "travel"},
                            m \in {None, "acme", "bistro"}}

CardTxns ==
    {Txn(ac[1], ac[2], "acme", d) :
        ac \in {<<3, "food">>, <<7, "food">>, <<7, "travel">>, <<3, None>>},
        d \in {MidJan, EndJan, LeapDay, MidApril}}

InsightTxns ==
    {Txn(a, c, "acme", d) : a \in {-7, 3, 7}, c \in {None, "food", "travel"},
                            d \in {MidJan, LeapDay}}

\* six categories, one row each, in an order that is a rotation of the
\* alphabetical order or of its reverse, each row's amount 1 or 2
TopCategories == <<"auto", "dining", "food", "gas", "health", "travel">>

Rotations(s) == {[i \in DOMAIN s |-> s[((i - 1 + r) % Len(s)) + 1]] : r \in 0..(Len(s) - 1)}

TopLists ==
    {[i \in DOMAIN order |-> Txn(amt[i], order[i], "acme", MidJan)] :
        order \in Rotations(TopCategories) \cup Rotations(Reversed(TopCategories)),
        amt \in [DOMAIN TopCategories -> {1, 2}]}

\* a short free list with a run of equal ordinary rows put in at one place
LongTxns == {Txn(a, "food", "acme", d) : a \in {1, 100}, d \in {NewYear, MidJan, MidApril}}

Ordinary == Txn(1, "food", "acme", MidJan)

PadAt(free, at, pad) ==
    SubSeq(free, 1, at) \o [i \in 1..pad |-> Ordinary] \o SubSeq(free, at + 1, Len(free))

LongLists ==
    UNION {{PadAt(free, at, pad) : at \in 0..Len(free), pad \in 0..MaxPad} :
              free \in SeqsUpTo(LongTxns, MaxFree)}

(***************************************************************************)
(* The service (src/app.py): the tables, the two card endpoints that touch *)
(* the transactions table, and the requests they serve.  current_user is   *)
(* the id of the user whose request was handled last, 0 before any.        *)
(***************************************************************************)
EmptyDb == [credit_cards |-> {}, transactions |-> <<>>]

\* a row of credit_cards
CreditCard(id, user_id, limit, balance) ==
    [id |-> id, user_id |-> user_id, credit_limit |-> limit, current_balance |-> balance,
     available_credit |-> limit - balance]

\* one transaction of the bank's JSON answer
ApiTransaction(wf_id, a, c, m, d) ==
    [id |-> wf_id, amount |-> a, category |-> c, merchant |-> m, transaction_date |-> d]

\* Transaction(user_id=current_user.id, card_id=card_id, ...), its primary key
\* the next position of the table
Transaction(id, user_id, card_id, t) ==
    [id |-> id, user_id |-> user_id, card_id |-> card_id, wells_fargo_transaction_id |-> t.id,
     amount |-> t.amount, category |-> t.category, merchant |-> t.merchant,
     transaction_date |-> t.transaction_date]

\* mutant of QueryCard: the card looked up by its id alone
QueryCardAnyUser(cards, card_id, user) == {c \in cards : c.id = card_id}

\* db.query(CreditCard).filter(CreditCard.id == card_id,
\*                             CreditCard.user_id == current_user.id)
QueryCard(cards, card_id, user) == {c \in cards : c.id = card_id /\ c.user_id = user}

\* the rows the loop adds to the session
NewTransactions(rows, user, card_id, fetched) ==
    [i \in DOMAIN fetched |-> Transaction(Len(rows) + i, user, card_id, fetched[i])]

\* wells_fargo_transaction_id is unique: the commit fails when two rows of the
\* table would carry one id
UniqueIds(rows) ==
    \A i, j \in DOMAIN rows :
        rows[i].wells_fargo_transaction_id = rows[j].wells_fargo_transaction_id => i = j

MaxFetch == 2

Users == {1, 2}

CardIds == {1, 2}

ApiTransactions ==
    {ApiTransaction("wf1", 3, "food", "acme", MidJan),
     ApiTransaction("wf2", 7, "travel", "acme", LeapDay),
     ApiTransaction("wf3", 7, None, None, MidApril)}

get_card_transactions ==
    \E user \in Users, card_id \in CardIds :
        /\ op' = "get_card_transactions"
        /\ current_user' = user
        /\ UNCHANGED <<transactions, card>>
        /\ IF QueryCard(db.credit_cards, card_id, user) = {}
           THEN result' = Raised("404 Card not found") /\ UNCHANGED db
           ELSE \/ result' = Raised("500 Failed to retrieve transactions") /\ UNCHANGED db
                \/ \E fetched \in SeqsUpTo(ApiTransactions, MaxFetch) :
                      LET added == NewTransactions(db.transactions, user, card_id, fetched)
                      IN IF UniqueIds(db.transactions \o added)
                         THEN /\ db' = [db EXCEPT !.transactions = @ \o added]
                              /\ result' = Ok(added)
                         ELSE result' = Raised("IntegrityError") /\ UNCHANGED db

get_card_analytics ==
    \E user \in Users, card_id \in CardIds :
        /\ op' = "get_card_analytics"
        /\ current_user' = user
        /\ UNCHANGED db
        /\ IF QueryCard(db.credit_cards, card_id, user) = {}
           THEN result' = Raised("404 Card not found") /\ UNCHANGED <<transactions, card>>
           ELSE /\ card' = CHOOSE c \in QueryCard(db.credit_cards, card_id, user) : TRUE
                /\ transactions' = SelectSeq(db.transactions, LAMBDA t : t.card_id = card_id)
                /\ result' = calculate_card_analytics(card', transactions')

InitWith(inputs, cards) ==
    /\ transactions \in {WithIds(s) : s \in inputs}
    /\ card \in cards
    /\ op = "idle"
    /\ result = NoResult
    /\ db = EmptyDb
    /\ current_user = 0

(***************************************************************************)
(* Specifications.                                                         *)
(***************************************************************************)
Init == InitWith(SeqsUpTo(AllTxns, MaxLen), OneCard)

Next == SpendingAnalytics \/ CardAnalytics \/ DetectUnusual \/ SpendingInsights

Spec == Init /\ [][Next]_vars

InitSpending == InitWith(SeqsUpTo(SpendingTxns, MaxSpendingLen), OneCard)

NextSpending == SpendingAnalytics

SpecSpending == InitSpending /\ [][NextSpending]_vars

InitCard ==
    \/ InitWith(SeqsUpTo(CardTxns, MaxCardLen), OneCard)
    \/ InitWith(SeqsUpTo(CardTxns, 1), Cards)

NextCard == CardAnalytics

SpecCard == InitCard /\ [][NextCard]_vars

InitLong == InitWith(LongLists, OneCard)

NextLong == CardAnalytics \/ DetectUnusual

SpecLong == InitLong /\ [][NextLong]_vars

InitInsights == InitWith(SeqsUpTo(InsightTxns, MaxInsightLen) \cup TopLists, OneCard)

NextInsights == SpendingInsights

SpecInsights == InitInsights /\ [][NextInsights]_vars

\* an empty transactions table and two cards, owned in each of the four ways
InitApp ==
    /\ transactions = <<>>
    /\ card \in OneCard
    /\ op = "idle"
    /\ result = NoResult
    /\ db \in {[credit_cards |-> {CreditCard(c, owner[c], 400, 300) : c \in CardIds},
                transactions |-> <<>>] : owner \in [CardIds -> Users]}
    /\ current_user = 0

NextApp == get_card_transactions \/ get_card_analytics

SpecApp == InitApp /\ [][NextApp]_vars

(***************************************************************************)
(* Properties.                                                             *)
(***************************************************************************)

\* C1: for every non-empty list, nulls included, calculate_spending_analytics
\* returns a report in which the values of spending_by_category sum to
\* total_spent and the values of spending_by_merchant sum to total_spent.
C1_GroupSumsEqualTotal ==
    (op = "spending" /\ transactions # <<>> /\ result.error = "none") =>
        /\ DictSum(result.value.spending_by_category) = result.value.total_spent
        /\ DictSum(result.value.spending_by_merchant) = result.value.total_spent

\* n times the deviation of row i from the mean, and n^2 times the sum of the
\* squared deviations of all rows
C2_Deviation(i) ==
    Len(transactions) * transactions[i].amount - SeqSum(Amounts(transactions))

C2_SquaredDeviations ==
    SeqSum([j \in DOMAIN transactions |-> C2_Deviation(j) * C2_Deviation(j)])

\* |amount - mean| > 2 * sqrt(sum of squared deviations / (n - 1))
C2_Qualifies(i) ==
    C2_Deviation(i) * C2_Deviation(i) * (Len(transactions) - 1) > 4 * C2_SquaredDeviations

\* C2: on a list of 2 or more rows, detect_unusual_transactions returns exactly
\* the subsequence of the rows whose amount is more than 2 sample standard
\* deviations from the mean: each such row once, no other row, in input order.
C2_UnusualIsTheQualifyingSubsequence ==
    (op = "unusual" /\ Len(transactions) >= 2) =>
        /\ result.error = "none"
        /\ result.value =
              SelectIdx(transactions, {i \in DOMAIN transactions : C2_Qualifies(i)}, 1)

\* two rows that share amount and date are both returned, next to rows that are not
C2_Witness ==
    /\ op = "unusual"
    /\ Len(result.value) < Len(transactions)
    /\ \E i, j \in DOMAIN result.value :
          /\ i < j
          /\ result.value[i].amount = result.value[j].amount
          /\ result.value[i].transaction_date = result.value[j].transaction_date

\* C3: on a list of fewer than 2 rows, detect_unusual_transactions returns the
\* empty list and does not raise.
C3_FewerThanTwoGivesEmpty ==
    (op = "unusual" /\ Len(transactions) < 2) => result = Ok(<<>>)

C3_Witness ==
    /\ op = "unusual"
    /\ Len(transactions) = 1
    /\ transactions[1].amount = 100
    /\ result = Ok(<<>>)

\* the named categories of the list, and the rule-1 recommendations for one
C4_Categories == {transactions[i].category : i \in DOMAIN transactions} \ {None}

C4_Sum(c) == SumAt(transactions, RowsWith(transactions, "category", c))

C4_Total == SeqSum(Amounts(transactions))

C4_Emitted(c) ==
    Cardinality({i \in DOMAIN result.value.recommendations :
                    /\ result.value.recommendations[i].rule = "reduce_category"
                    /\ result.value.recommendations[i].name = c})

\* C4 as stated: a category gets the "Consider reducing spending" recommendation,
\* once, if and only if its summed amount is strictly more than 30% of the sum
\* of all amounts.
C4_RecommendedIffSumAboveThirtyPercentOfTotal ==
    (op = "insights" /\ transactions # <<>>) =>
        /\ result.error = "none"
        /\ \A c \in C4_Categories :
              C4_Emitted(c) = IF 10 * C4_Sum(c) > 3 * C4_Total THEN 1 ELSE 0

\* the quotient sum / total * 100 is more than 30
C4_ShareAboveThirty(c) ==
    \/ C4_Total > 0 /\ 10 * C4_Sum(c) > 3 * C4_Total
    \/ C4_Total < 0 /\ 10 * C4_Sum(c) < 3 * C4_Total
    \/ C4_Total = 0 /\ C4_Sum(c) > 0

\* C4 as amended: a category gets the recommendation, once, if and only if the
\* quotient (its summed amount / the sum of all amounts) * 100 is strictly more
\* than 30; with a positive total that is the stated condition, and a share of
\* exactly 30% gets none.
C4_RecommendedIffShareAboveThirty ==
    (op = "insights" /\ transactions # <<>>) =>
        /\ result.error = "none"
        /\ \A c \in C4_Categories :
              C4_Emitted(c) = IF C4_ShareAboveThirty(c) THEN 1 ELSE 0

\* a category at exactly 30% without a recommendation next to one above 30% with one
C4_Witness ==
    /\ op = "insights"
    /\ C4_Total > 0
    /\ \E c, d \in C4_Categories :
          /\ 10 * C4_Sum(c) = 3 * C4_Total
          /\ C4_Emitted(c) = 0
          /\ 10 * C4_Sum(d) > 3 * C4_Total
          /\ C4_Emitted(d) = 1

\* C5: calculate_card_analytics does not raise on the card's limit;
\* utilization_rate is 0 when credit_limit <= 0 and is
\* current_balance / credit_limit * 100 when credit_limit > 0.
C5_UtilizationDefinedForEveryLimit ==
    op = "card" =>
        /\ result.error = "none"
        /\ card.credit_limit <= 0 => result.value.utilization_rate.num = 0
        /\ card.credit_limit > 0 =>
              /\ result.value.utilization_rate.den # 0
              /\ result.value.utilization_rate.num * card.credit_limit
                    = card.current_balance * 100 * result.value.utilization_rate.den

C5_Witness ==
    /\ op = "card"
    /\ card.credit_limit = 0
    /\ card.current_balance = 500
    /\ result.error = "none"
    /\ result.value.utilization_rate.num = 0

\* C6: recent_transactions has length min(n, 10), is in non-increasing
\* transaction_date order, and holds rows of the input with the latest dates: no
\* row left out is dated later than a row kept.
C6_RecentAreTheLatestTen ==
    op = "card" =>
        /\ result.error = "none"
        /\ LET recent == result.value.recent_transactions
               kept   == {recent[i].id : i \in DOMAIN recent}
           IN /\ Len(recent) = Min2(Len(transactions), 10)
              /\ \A i \in DOMAIN recent : recent[i] = transactions[recent[i].id]
              /\ Cardinality(kept) = Len(recent)
              /\ \A i, j \in DOMAIN recent :
                    i < j => Stamp(recent[i].transaction_date) >= Stamp(recent[j].transaction_date)
              /\ \A i \in DOMAIN transactions \ kept : \A j \in DOMAIN recent :
                    Stamp(transactions[i].transaction_date) <= Stamp(recent[j].transaction_date)

\* more than 10 rows, not given in date order, some row left out and a later one kept
C6_Witness ==
    /\ op = "card"
    /\ Len(transactions) > 10
    /\ Len(result.value.recent_transactions) = 10
    /\ Stamp(transactions[1].transaction_date) < Stamp(transactions[Len(transactions)].transaction_date)
    /\ result.value.recent_transactions[1].id = Len(transactions)
    /\ \E i \in DOMAIN transactions :
          /\ \A j \in 1..10 : result.value.recent_transactions[j].id # i
          /\ Stamp(transactions[i].transaction_date)
                < Stamp(result.value.recent_transactions[10].transaction_date)

\* the rows dated in the calendar month of key k, and the keys of that month
C7_RowsInMonthOf(k) ==
    {i \in DOMAIN transactions :
        /\ transactions[i].transaction_date.year = k.year
        /\ transactions[i].transaction_date.month = k.month}

\* k is a last calendar day at midnight: the day after it is a first of the month
C7_IsMonthEnd(k) == k.hour = 0 /\ FromDayNumber(DayNumber(k) + 1).day = 1

\* C7: in `monthly` every key is the last calendar day of a month, no two keys
\* lie in one month, every row's month has a key (so rows of one month share a
\* key and rows of different months do not), and the value at a key is the sum
\* of the amounts of exactly the rows dated in that month.
C7_MonthlyBucketsByCalendarMonth ==
    (op = "card" /\ transactions # <<>>) =>
        /\ result.error = "none"
        /\ LET monthly == result.value.spending_trends.monthly
           IN /\ \A k \in DOMAIN monthly :
                    /\ C7_IsMonthEnd(k)
                    /\ monthly[k] = SumAt(transactions, C7_RowsInMonthOf(k))
              /\ \A k1, k2 \in DOMAIN monthly :
                    (k1.year = k2.year /\ k1.month = k2.month) => k1 = k2
              /\ \A i \in DOMAIN transactions :
                    \E k \in DOMAIN monthly : i \in C7_RowsInMonthOf(k)

\* two rows of one month on different days (one of them on the month's last day,
\* after midnight) in one bucket, and a row of the next month in another
C7_Witness ==
    /\ op = "card"
    /\ Len(transactions) = 3
    /\ transactions[1].transaction_date = EndJan
    /\ transactions[2].transaction_date = LeapDay
    /\ transactions[3].transaction_date = MidJan
    /\ result.value.spending_trends.monthly[DateTime(2024, 1, 31, 0)]
          = transactions[1].amount + transactions[3].amount
    /\ result.value.spending_trends.monthly[DateTime(2024, 2, 29, 0)] = transactions[2].amount

\* value of a category's series at a month-end key, 0 where the series has no such key
C8_ValueAt(series, k) == IF \E b \in DOMAIN series : b = k THEN series[k] ELSE 0

C8_NamedCategories == {transactions[i].category : i \in DOMAIN transactions} \ {None}

\* C8: by_category maps each category to a mapping whose keys are month-end
\* dates, keys of `monthly`, and whose value at a month is the sum of the amounts
\* of that category's rows of that month; for every month the values of all
\* categories add up to the `monthly` value.
C8_ByCategoryIsMonthlySeriesPerCategory ==
    (op = "card" /\ transactions # <<>>) =>
        /\ result.error = "none"
        /\ LET monthly     == result.value.spending_trends.monthly
               by_category == result.value.spending_trends.by_category
           IN /\ DOMAIN by_category = C8_NamedCategories
              /\ \A cat \in DOMAIN by_category : \A k \in DOMAIN by_category[cat] :
                    /\ \E b \in DOMAIN monthly : k = b
                    /\ by_category[cat][k] =
                          SumAt(transactions,
                                {i \in C7_RowsInMonthOf(k) : transactions[i].category = cat})
              /\ \A b \in DOMAIN monthly :
                    SetSum([cat \in DOMAIN by_category |-> C8_ValueAt(by_category[cat], b)],
                           DOMAIN by_category) = monthly[b]

\* C9 as stated: on an empty list every report function returns its zero/empty
\* result without raising, and the trend report of calculate_card_analytics has
\* a `monthly` and a `by_category` mapping, both empty.
C9_EmptyInputGivesEmptyReports ==
    transactions = <<>> =>
        /\ result.error = "none"
        /\ op = "spending" =>
              /\ result.value.total_spent = 0
              /\ DOMAIN result.value.spending_by_category = {}
              /\ DOMAIN result.value.spending_by_merchant = {}
              /\ DOMAIN result.value.daily_spending = {}
              /\ result.value.most_frequent_merchant = ""
        /\ op = "insights" =>
              /\ result.value.top_categories = <<>>
              /\ DOMAIN result.value.spending_patterns = {}
              /\ result.value.recommendations = <<>>
        /\ op = "unusual" => result.value = <<>>
        /\ op = "card" =>
              /\ {"monthly", "by_category"} \subseteq DOMAIN result.value.spending_trends
              /\ DOMAIN result.value.spending_trends.monthly = {}
              /\ DOMAIN result.value.spending_trends.by_category = {}

\* C9 as amended: on an empty list every report function returns its zero/empty
\* result without raising, and the trend report of calculate_card_analytics is
\* the empty mapping: it has no `monthly` and no `by_category` key.
C9_EmptyInputGivesEmptyReportsAndNoTrendKeys ==
    transactions = <<>> =>
        /\ result.error = "none"
        /\ op = "spending" =>
              /\ result.value.total_spent = 0
              /\ DOMAIN result.value.spending_by_category = {}
              /\ DOMAIN result.value.spending_by_merchant = {}
              /\ DOMAIN result.value.daily_spending = {}
              /\ result.value.most_frequent_merchant = ""
        /\ op = "insights" =>
              /\ result.value.top_categories = <<>>
              /\ DOMAIN result.value.spending_patterns = {}
              /\ result.value.recommendations = <<>>
        /\ op = "unusual" => result.value = <<>>
        /\ op = "card" => DOMAIN result.value.spending_trends = {}

C9_Witness ==
    /\ transactions = <<>>
    /\ op = "card"
    /\ result.error = "none"
    /\ DOMAIN result.value.spending_trends = {}
    /\ result.value.recent_transactions = <<>>

C10_Sums == GroupBySum(transactions, "category")

C10_FirstRow(c) ==
    CHOOSE i \in DOMAIN transactions :
        /\ transactions[i].category = c
        /\ \A j \in 1..(i - 1) : transactions[j].category # c

\* top_categories holds min(5, number of categories) distinct categories with
\* their sums, in non-increasing order of sum, and no category left out has a
\* larger sum than one kept
C10_TopByAmount ==
    LET top  == result.value.top_categories
        kept == {top[i].category : i \in DOMAIN top}
    IN /\ Len(top) = Min2(5, Cardinality(DOMAIN C10_Sums))
       /\ Cardinality(kept) = Len(top)
       /\ kept \subseteq DOMAIN C10_Sums
       /\ \A i \in DOMAIN top : top[i].amount = C10_Sums[top[i].category]
       /\ \A i, j \in DOMAIN top : i < j => top[i].amount >= top[j].amount
       /\ \A c \in DOMAIN C10_Sums \ kept : \A i \in DOMAIN top : C10_Sums[c] <= top[i].amount

\* of two categories with equal sums the one met first in the input is ranked
\* first, and is the one kept at the cut-off
C10_TiesByFirstEncounter ==
    LET top  == result.value.top_categories
        kept == {top[i].category : i \in DOMAIN top}
    IN /\ \A i, j \in DOMAIN top :
             (i < j /\ top[i].amount = top[j].amount)
                => C10_FirstRow(top[i].category) < C10_FirstRow(top[j].category)
       /\ \A c \in DOMAIN C10_Sums \ kept : \A i \in DOMAIN top :
             C10_Sums[c] = top[i].amount => C10_FirstRow(top[i].category) < C10_FirstRow(c)

\* C10 as stated: top_categories holds the min(5, number of categories)
\* categories with the largest sums in non-increasing order, ties ranked (and
\* cut off) by first occurrence in the input.
C10_TopCategoriesTiesByFirstEncounter ==
    (op = "insights" /\ transactions # <<>>) =>
        /\ result.error = "none"
        /\ C10_TopByAmount
        /\ C10_TiesByFirstEncounter

\* C10 as amended: top_categories holds the min(5, number of categories)
\* categories with the largest sums in non-increasing order; the order of
\* categories with equal sums, and which of them is kept at the cut-off, is not
\* fixed by their order in the input.
C10_TopCategoriesByAmount ==
    (op = "insights" /\ transactions # <<>>) =>
        /\ result.error = "none"
        /\ C10_TopByAmount

\* six categories, five kept, with a tie across the cut-off and an unequal pair kept
C10_Witness ==
    /\ op = "insights"
    /\ Cardinality(DOMAIN C10_Sums) = 6
    /\ Len(result.value.top_categories) = 5
    /\ result.value.top_categories[1].amount > result.value.top_categories[5].amount
    /\ \E c \in DOMAIN C10_Sums :
          /\ \A i \in 1..5 : result.value.top_categories[i].category # c
          /\ C10_Sums[c] = result.value.top_categories[5].amount

\* occurrences of merchant m, and the position of its first row
C11_Count(m) == Cardinality({i \in DOMAIN transactions : transactions[i].merchant = m})

C11_FirstRow(m) ==
    CHOOSE i \in DOMAIN transactions :
        /\ transactions[i].merchant = m
        /\ \A j \in 1..(i - 1) : transactions[j].merchant # m

C11_Merchants == {transactions[i].merchant : i \in DOMAIN transactions} \ {None}

\* C11: on every non-empty list, one with every merchant null included,
\* calculate_spending_analytics does not fail, and most_frequent_merchant is a
\* merchant with the highest occurrence count, the first of them in the input
\* when several share that count.
C11_MostFrequentMerchantFirstEncountered ==
    (op = "spending" /\ transactions # <<>>) =>
        /\ result.error = "none"
        /\ C11_Merchants # {} =>
              /\ result.value.most_frequent_merchant \in C11_Merchants
              /\ \A m \in C11_Merchants :
                    /\ C11_Count(m) <= C11_Count(result.value.most_frequent_merchant)
                    /\ C11_Count(m) = C11_Count(result.value.most_frequent_merchant)
                          => C11_FirstRow(result.value.most_frequent_merchant) <= C11_FirstRow(m)

\* number of the calendar month of a date, consecutive months one apart
C12_MonthNo(d) == d.year * 12 + d.month

C12_RowMonths == {C12_MonthNo(transactions[i].transaction_date) : i \in DOMAIN transactions}

\* C12: on a non-empty list the keys of `monthly` are month-end dates, exactly
\* one for every calendar month from the month of the earliest row through the
\* month of the latest row; a month of that range without a row has its key
\* with value 0.
C12_MonthlyKeysAreTheContiguousRun ==
    (op = "card" /\ transactions # <<>>) =>
        /\ result.error = "none"
        /\ LET monthly == result.value.spending_trends.monthly
               lo == CHOOSE n \in C12_RowMonths : \A o \in C12_RowMonths : n <= o
               hi == CHOOSE n \in C12_RowMonths : \A o \in C12_RowMonths : o <= n
           IN /\ \A k \in DOMAIN monthly :
                    C7_IsMonthEnd(k) /\ C12_MonthNo(k) \in lo..hi
              /\ \A n \in lo..hi :
                    \E k \in DOMAIN monthly :
                        /\ C12_MonthNo(k) = n
                        /\ n \notin C12_RowMonths => monthly[k] = 0
              /\ Cardinality(DOMAIN monthly) = hi - lo + 1

\* rows in January and April 2024 only: February and March have keys with
\* value 0, four keys for two months that hold rows
C12_Witness ==
    /\ op = "card"
    /\ result.error = "none"
    /\ {transactions[i].transaction_date : i \in DOMAIN transactions} = {MidJan, MidApril}
    /\ DOMAIN result.value.spending_trends.monthly
          = {DateTime(2024, 1, 31, 0), DateTime(2024, 2, 29, 0),
             DateTime(2024, 3, 31, 0), DateTime(2024, 4, 30, 0)}
    /\ result.value.spending_trends.monthly[DateTime(2024, 2, 29, 0)] = 0
    /\ result.value.spending_trends.monthly[DateTime(2024, 3, 31, 0)] = 0
    /\ Cardinality(DOMAIN result.value.spending_trends.monthly) > Cardinality(C12_RowMonths)

\* the owner of card c in credit_cards
C13_Owner(c) == (CHOOSE r \in db.credit_cards : r.id = c).user_id

\* C13: with card ownership fixed, after any sequence of requests every stored
\* Transaction of card c carries the user_id of card c's owner, and the list
\* get_card_analytics hands to calculate_card_analytics holds no transaction
\* of a user other than the requester.
C13_StoredRowsBelongToTheCardOwner ==
    /\ \A i \in DOMAIN db.transactions :
          /\ \E r \in db.credit_cards : r.id = db.transactions[i].card_id
          /\ db.transactions[i].user_id = C13_Owner(db.transactions[i].card_id)
    /\ (op = "get_card_analytics" /\ result.error = "none") =>
          /\ card.user_id = current_user
          /\ \A i \in DOMAIN transactions :
                /\ transactions[i].card_id = card.id
                /\ transactions[i].user_id = current_user

\* both users have stored rows, and one of them got the analytics of a card of
\* theirs, computed from their rows only
C13_Witness ==
    /\ op = "get_card_analytics"
    /\ result.error = "none"
    /\ transactions # <<>>
    /\ \E i \in DOMAIN db.transactions : db.transactions[i].user_id # current_user
    /\ Len(result.value.recent_transactions) = Len(transactions)

====
